---- MODULE Spec2Model ----
(***************************************************************************)
(* Model of unshared_vk/spy.py: the retrying transport do_execute_request, *)
(* the two VKScript batch scripts as the server evaluates them, and the    *)
(* orchestrator find_unshared_groups with its progress reporting.          *)
(***************************************************************************)
EXTENDS Integers, Sequences, FiniteSets, TLC

(***************************************************************************)
(* Bounds of the model.                                                    *)
(***************************************************************************)
MaxGroups == 3
MaxFriends == 2
MaxRepeat == 3
MaxThreshold == 1
MaxStep == 2
\* Group counts of the long runs (specification SpecLong): LongGroups-1 .. LongGroups
LongGroups == 100
\* Lists and page sizes of the script runs (specification SpecScript)
MaxItems == 6
MaxPage == 3

VARIABLES
    cfg,              \* keyword arguments of find_unshared_groups (fixed for a run)
    world,            \* what the remote service knows: user, groups, friends, membership
    pc,               \* position in find_unshared_groups
    rpc,              \* position in do_execute_request: "idle", "loop", "after"
    code,             \* the script handed to the current do_execute_request call
    attempts,         \* requests.post calls issued by the current do_execute_request call
    response,         \* local variable response of do_execute_request
    outcomes,         \* history: outcome of every attempt of the current call
    sleeps,           \* history: sleep(request_delay) calls of the current call
    returned,         \* value returned by the last do_execute_request call
    user_info,        \* local variable user_info
    special_groups,   \* local variable special_groups
    gi,               \* index of the for loop over user_info['groups']['items']
    progress_status,  \* local variable progress_status (a fraction)
    progress_step,    \* local variable progress_step (a fraction)
    progress_calls,   \* history: every value passed to progress(), in order
    notices,          \* history: messages find_unshared_groups printed to stderr
    calls,            \* history: every script submitted through do_execute_request
    api_calls,        \* history: the API methods the service called for the last script it ran
    printed,          \* history: lines the current do_execute_request call printed to stderr
    requests,         \* history: requests.post calls issued by the run so far
    files,            \* history: every write of the result file, path and text
    error,            \* the exception that ended the run, or None
    result            \* the value find_unshared_groups returned, or None

vars == <<cfg, world, pc, rpc, code, attempts, response, outcomes, sleeps,
          returned, user_info, special_groups, gi, progress_status,
          progress_step, progress_calls, notices, calls, api_calls, printed,
          requests, files, error, result>>

None == [kind |-> "None"]

(***************************************************************************)
(* Python floats, modelled as exact fractions <<numerator, denominator>>   *)
(* in lowest terms.  Every comparison the model makes is between values    *)
(* that differ by more than 1/100 or are exactly equal in IEEE doubles.    *)
(***************************************************************************)
RECURSIVE GCD(_, _)
GCD(a, b) == IF b = 0 THEN a ELSE GCD(b, a % b)

Norm(n, d) == LET g == GCD(n, d) IN <<n \div g, d \div g>>

FromInt(n) == <<n, 1>>

FAdd(a, b) == Norm(a[1] * b[2] + b[1] * a[2], a[2] * b[2])

FDiv(a, b) == Norm(a[1] * b[2], a[2] * b[1])

\* a <= b and a = b: whole parts first, then the remainders, so that no
\* product leaves the range of the integers
FLeq(a, b) ==
    LET qa == a[1] \div a[2]
        qb == b[1] \div b[2]
    IN  \/ qa < qb
        \/ qa = qb /\ (a[1] % a[2]) * b[2] <= (b[1] % b[2]) * a[2]

FEq(a, b) == FLeq(a, b) /\ FLeq(b, a)

(***************************************************************************)
(* VKScript values: strings are sequences of one-character strings.        *)
(***************************************************************************)
\* array + "" : the elements joined with ","; the array is joined by halves,
\* which keeps the evaluation shallow for the 500 flags of a full slice
RECURSIVE ArrayToString(_)
ArrayToString(arr) ==
    IF arr = <<>> THEN <<>>
    ELSE IF Len(arr) = 1 THEN arr[1]
    ELSE LET half == Len(arr) \div 2
         IN  ArrayToString(SubSeq(arr, 1, half)) \o <<",">>
             \o ArrayToString(SubSeq(arr, half + 1, Len(arr)))

\* the pieces of a text from the pieces of its two halves: the last piece of
\* the left half and the first piece of the right half are one piece
JoinPieces(left, right) ==
    SubSeq(left, 1, Len(left) - 1) \o <<left[Len(left)] \o right[1]>> \o Tail(right)

\* s.split(ch) for a one-character separator; the text is split by halves
RECURSIVE Split(_, _)
Split(s, ch) ==
    IF s = <<>> THEN << <<>> >>
    ELSE IF Len(s) = 1 THEN (IF s[1] = ch THEN << <<>>, <<>> >> ELSE <<s>>)
    ELSE LET half == Len(s) \div 2
         IN  JoinPieces(Split(SubSeq(s, 1, half), ch),
                        Split(SubSeq(s, half + 1, Len(s)), ch))

\* the text of one member flag (0 or 1)
FlagText(flag) == IF flag = 1 THEN <<"1">> ELSE <<"0">>

\* ((member_flags+"").split(0)+"").split(1).length-1
CountFlags(member_flags) ==
    LET text == ArrayToString([k \in 1..Len(member_flags) |-> FlagText(member_flags[k])])
    IN  Len(Split(ArrayToString(Split(text, "0")), "1")) - 1

\* array.slice(from, to), zero-based, end exclusive
Slice(arr, from, to) ==
    LET hi == IF to < Len(arr) THEN to ELSE Len(arr)
    IN  IF from >= hi THEN <<>> ELSE SubSeq(arr, from + 1, hi)

DigitChars == <<"0", "1", "2", "3", "4", "5", "6", "7", "8", "9">>

\* str(n) of an integer n >= 0
RECURSIVE IntText(_)
IntText(n) ==
    IF n < 10 THEN <<DigitChars[n + 1]>>
    ELSE Append(IntText(n \div 10), DigitChars[(n % 10) + 1])

\* the number a text of decimal digits is read as
RECURSIVE ParseInt(_)
ParseInt(text) ==
    LET digit == CHOOSE d \in 0..9 : DigitChars[d + 1] = text[Len(text)]
    IN  IF Len(text) = 1 THEN digit
        ELSE 10 * ParseInt(SubSeq(text, 1, Len(text) - 1)) + digit

\* mutant of PyStr: the value is rendered by repr(), a string within quotes
PyRepr(x) ==
    IF x.type = "int" THEN IntText(x.value) ELSE <<"'">> \o x.value \o <<"'">>

\* what str.format puts in place of {user_id}: str(x), the text of a string
\* itself and the decimal digits of a number
PyStr(x) == IF x.type = "int" THEN IntText(x.value) ELSE x.value

\* a text with a double quote in it
HasQuote(text) == \E k \in 1..Len(text) : text[k] = "\""

\* var x = "<text>"; the value of the string literal the script reads: it ends
\* at the first double quote of the text
LiteralValue(text) ==
    IF HasQuote(text)
    THEN SubSeq(text, 1, (CHOOSE k \in 1..Len(text) :
                            text[k] = "\"" /\ \A j \in 1..(k - 1) : text[j] # "\"") - 1)
    ELSE text

(***************************************************************************)
(* The remote service.                                                     *)
(***************************************************************************)
\* API.groups.get / API.friends.get: one page {count, items} of a list
ApiGetPage(list, count, offset) ==
    [count |-> Len(list), items |-> Slice(list, offset, offset + count)]

\* mutant of LoadRest: the loop also runs for i = count
RECURSIVE LoadRestInclusive(_, _, _, _)
LoadRestInclusive(list, step, i, pages) ==
    IF i <= pages[1].count
    THEN LoadRestInclusive(list, step, i + step, Append(pages, ApiGetPage(list, step, i)))
    ELSE pages

\* the while(i < count) loop: the pages requested so far and one more page per
\* iteration; count is the count field of the first page
RECURSIVE LoadRest(_, _, _, _)
LoadRest(list, step, i, pages) ==
    IF i < pages[1].count
    THEN LoadRest(list, step, i + step, Append(pages, ApiGetPage(list, step, i)))
    ELSE pages

\* every page a paging loop requests: the first page, then the pages of the loop
Pages(list, step) == LoadRest(list, step, step, <<ApiGetPage(list, step, 0)>>)

\* first.items + page.items + ... : the items of the pages, concatenated
RECURSIVE JoinItems(_)
JoinItems(pages) ==
    IF pages = <<>> THEN <<>> ELSE Head(pages).items \o JoinItems(Tail(pages))

\* first page followed by the paging loop
LoadAll(list, step) ==
    LET pages == Pages(list, step)
    IN  [count |-> pages[1].count, items |-> JoinItems(pages)]

\* the texts users.get resolves to the user of the world: the screen name, the
\* numeric id and the numeric id after "id"
NamesOf(w) == {w.handle, IntText(w.id), <<"i", "d">> \o IntText(w.id)}

\* API.users.get({user_ids: user_id})
ApiUsersGet(w, user_ids) ==
    IF w.user = "missing" \/ user_ids \notin NamesOf(w) THEN <<>>
    ELSE <<[id |-> w.id, deactivated |-> (w.user = "deactivated")]>>

\* API.groups.isMember(...)@.member: one 0/1 flag per user id
ApiIsMember(w, group_id, user_ids) ==
    [k \in 1..Len(user_ids) |-> IF user_ids[k] \in w.members[group_id] THEN 1 ELSE 0]

\* API.groups.getById with fields members_count
ApiGroupsGetById(w, group_id) ==
    <<[id |-> group_id, name |-> <<"name", group_id>>,
       screen_name |-> <<"club", group_id>>, members_count |-> 1000 + group_id]>>

\* friends.length, where friends is the object {count, items}: VKScript defines
\* length for arrays and strings only, so the service may yield null (the loop
\* condition slice < null is false), the number of the object's fields, or the
\* number of items
FriendsLength(w, friends) ==
    CASE w.length_of = "null" -> 0
      [] w.length_of = "fields" -> 2
      [] OTHER -> Len(friends.items)

\* the list groups.get or friends.get pages through for the user users.get
\* found: nothing is listed for no user and for a deactivated one
ListOf(user, list) == IF user # <<>> /\ ~user[1].deactivated THEN list ELSE <<>>

\* GET_MAIN_USER_INFO_REQUEST_CODE as the service evaluates it
MainUserInfo(w, user_ids, group_step, friend_step) ==
    LET user == ApiUsersGet(w, user_ids)
    IN  [user |-> user,
         groups |-> LoadAll(ListOf(user, w.groups), group_step),
         friends |-> LoadAll(ListOf(user, w.friends), friend_step)]

\* the slicing loop of CHECK_SPECIAL_GROUP_REQUEST_CODE: the user_ids argument
\* of every groups.isMember call, in order
RECURSIVE SliceList(_, _, _, _)
SliceList(items, count, step, slice) ==
    IF slice < count
    THEN <<Slice(items, slice, slice + step)>> \o SliceList(items, count, step, slice + step)
    ELSE <<>>

\* the slicing loop of CHECK_SPECIAL_GROUP_REQUEST_CODE: the value of sum
RECURSIVE SumSlices(_, _, _, _, _, _, _)
SumSlices(w, group_id, items, count, step, slice, sum) ==
    IF slice < count
    THEN SumSlices(w, group_id, items, count, step, slice + step,
                   sum + CountFlags(ApiIsMember(w, group_id,
                                                Slice(items, slice, slice + step))))
    ELSE sum

\* the value of sum when the script returns
FriendsInGroup(w, group_id, friend_load_step, friend_is_member_step) ==
    LET friends == LoadAll(w.friends, friend_load_step)
    IN  SumSlices(w, group_id, friends.items, FriendsLength(w, friends),
                  friend_is_member_step, 0, 0)

\* mutant of IsSpecial: the comparison is strict
IsSpecialStrict(sum, members_threshold) == sum < members_threshold

\* special_group: (sum <= members_threshold)
IsSpecial(sum, members_threshold) == sum <= members_threshold

\* CHECK_SPECIAL_GROUP_REQUEST_CODE as the service evaluates it
CheckSpecialGroup(w, user_ids, group_id, members_threshold, friend_load_step, friend_is_member_step) ==
    LET sum == FriendsInGroup(w, group_id, friend_load_step, friend_is_member_step)
    IN  [user |-> ApiUsersGet(w, user_ids),
         special_group |-> IsSpecial(sum, members_threshold),
         friends_in_group |-> sum,
         group |-> ApiGroupsGetById(w, group_id)]

\* what the service answers to a script
Evaluate(w, c, script) ==
    IF script.kind = "summary"
    THEN MainUserInfo(w, LiteralValue(script.user_id), c.group_step, c.friend_step)
    ELSE CheckSpecialGroup(w, LiteralValue(script.user_id),
                           ParseInt(LiteralValue(script.group_id)), c.members_threshold,
                           c.friend_load_step, c.friend_is_member_step)

\* n calls of one API method
MethodCalls(method, n) == [k \in 1..n |-> method]

\* the API methods the service calls while it runs a script, in order
ApiCalls(w, c, script) ==
    IF script.kind = "summary"
    THEN LET user == ApiUsersGet(w, LiteralValue(script.user_id))
         IN  <<"users.get">>
             \o MethodCalls("groups.get", Len(Pages(ListOf(user, w.groups), c.group_step)))
             \o MethodCalls("friends.get", Len(Pages(ListOf(user, w.friends), c.friend_step)))
    ELSE LET friends == LoadAll(w.friends, c.friend_load_step)
         IN  <<"users.get">>
             \o MethodCalls("friends.get", Len(Pages(w.friends, c.friend_load_step)))
             \o MethodCalls("groups.isMember",
                            Len(SliceList(friends.items, FriendsLength(w, friends),
                                          c.friend_is_member_step, 0)))
             \o <<"groups.getById">>

(***************************************************************************)
(* Inputs of a run.                                                        *)
(***************************************************************************)
\* the groups of the user, in the order groups.get lists them
GroupList(n) == [p \in 1..n |-> n + 1 - p]

FriendList(f) == [k \in 1..f |-> k]

LengthOutcomes == {"null", "fields", "items"}

\* the friends who are members of a group that holds c of the f friends: the
\* last c of the friend list
LastFriends(f, c) == {k \in 1..f : k > f - c}

\* the user of the module's examples: find_unshared_groups('a_medvedev_01'),
\* ('id169845376'), ('169845376') and (169845376) address the same user
Handle == <<"a", "_", "m", "e", "d", "v", "e", "d", "e", "v", "_", "0", "1">>

UserNumber == 169845376

\* the four ways to address the user of the world
UserRefs(w) ==
    {[type |-> "str", value |-> w.handle],
     [type |-> "str", value |-> <<"i", "d">> \o IntText(w.id)],
     [type |-> "str", value |-> IntText(w.id)],
     [type |-> "int", value |-> w.id]}

\* user ids that hold a double quote
QuotedRefs ==
    {[type |-> "str", value |-> <<"x", "\"", ";">>],
     [type |-> "str", value |-> Handle \o <<"\"">>]}

\* an existing, active user with n groups and f friends
ActiveWorlds(ns, fs) ==
    UNION {UNION {{[user |-> "active", id |-> UserNumber, handle |-> Handle,
                    groups |-> GroupList(n), friends |-> FriendList(f),
                    members |-> [g \in 1..n |-> LastFriends(f, m[g])], length_of |-> l] :
                        m \in [1..n -> 0..f], l \in LengthOutcomes} :
                  f \in fs} : n \in ns}

\* a user id the service does not know, or a deactivated user
AbsentWorlds ==
    {[user |-> u, id |-> UserNumber, handle |-> Handle,
      groups |-> <<>>, friends |-> <<>>, members |-> <<>>, length_of |-> "items"] :
        u \in {"missing", "deactivated"}}

\* the keyword arguments of find_unshared_groups
\* DEFAULT_OUTPUT_JSON_FILE
DefaultFile == [kind |-> "str", value |-> "groups.json"]

\* json_file=None and json_file='': no file is asked for
NoFiles == {None, [kind |-> "str", value |-> ""]}

ConfigsOf(refs, json_files, repeats, thresholds, steps) ==
    [user_id : refs,
     json_file : json_files,
     request_repeat : repeats,
     raise_nouser : BOOLEAN,
     members_threshold : thresholds,
     group_step : {MaxStep},
     friend_step : {MaxStep},
     friend_load_step : {MaxStep},
     friend_is_member_step : steps]

\* the user is addressed by the handle, or in any other way in a plain run
Configs ==
    ConfigsOf({[type |-> "str", value |-> Handle]}, {DefaultFile},
              0..MaxRepeat, 0..MaxThreshold, 1..MaxStep)
    \cup ConfigsOf(UserRefs([id |-> UserNumber, handle |-> Handle]) \cup QuotedRefs,
                   {DefaultFile}, {1}, {0}, {1})
    \cup ConfigsOf({[type |-> "str", value |-> Handle]}, NoFiles, {1}, {0}, {1})

\* the runs explored: raise_nouser, members_threshold and friend_is_member_step
\* vary where the run reads them, and calls of more than one attempt are
\* explored for users without friends
Scenario(c, w) ==
    /\ w.user = "active" => c.raise_nouser
    /\ w.user # "active" => c.members_threshold = 0 /\ c.friend_is_member_step = 1
    /\ w.friends = <<>> => c.members_threshold = 0 /\ c.friend_is_member_step = 1
                           /\ w.length_of = "items"
    /\ c.request_repeat > 1 => w.friends = <<>>
    /\ (c.user_id # [type |-> "str", value |-> w.handle] \/ c.json_file # DefaultFile) =>
          /\ w.friends = <<>> /\ Len(w.groups) <= 1
          /\ c.request_repeat = 1

InitRun ==
    /\ pc = "start"
    /\ rpc = "idle"
    /\ code = None
    /\ attempts = 0
    /\ response = None
    /\ outcomes = <<>>
    /\ sleeps = 0
    /\ returned = None
    /\ user_info = None
    /\ special_groups = <<>>
    /\ gi = 0
    /\ progress_status = FromInt(0)
    /\ progress_step = FromInt(0)
    /\ progress_calls = <<>>
    /\ notices = <<>>
    /\ calls = <<>>
    /\ api_calls = <<>>
    /\ printed = <<>>
    /\ requests = 0
    /\ files = <<>>
    /\ error = None
    /\ result = None

\* the users of the runs: up to MaxGroups groups and MaxFriends friends
Worlds == ActiveWorlds(0..MaxGroups, 0..MaxFriends) \cup AbsentWorlds

Init ==
    /\ cfg \in Configs
    /\ world \in Worlds
    /\ Scenario(cfg, world)
    /\ InitRun

\* runs over users with many groups
LongWorlds == ActiveWorlds((LongGroups - 1)..LongGroups, {0}) \cup AbsentWorlds

InitLong ==
    /\ cfg \in Configs
    /\ world \in LongWorlds
    /\ Scenario(cfg, world)
    /\ cfg.request_repeat \in 1..2
    /\ InitRun

(***************************************************************************)
(* do_execute_request                                                      *)
(***************************************************************************)
Outcomes == {"ok", "exception", "error", "malformed", "other"}

\* what attempt n leaves in the variable response: the exception requests.post
\* raised, or the HTTP response with its body
ResponseOf(outcome, n, script) ==
    CASE outcome = "exception" -> [kind |-> "exception", attempt |-> n]
      [] outcome = "ok" ->
            [kind |-> "http", attempt |-> n,
             body |-> [shape |-> "response", response |-> Evaluate(world, cfg, script)]]
      [] outcome = "error" ->
            [kind |-> "http", attempt |-> n,
             body |-> [shape |-> "error", error_code |-> n, error_msg |-> <<"msg", n>>]]
      [] outcome = "malformed" ->
            [kind |-> "http", attempt |-> n, body |-> [shape |-> "not_json"]]
      [] OTHER ->
            [kind |-> "http", attempt |-> n, body |-> [shape |-> "other"]]

IsException(r) == r.kind = "exception"

\* 'error' in response.json()
HasError(r) == r.body.shape = "error"

\* mutant of EnterRequest: the attempts of the call before count against this call
EnterRequestKeepsCount(script) ==
    /\ code' = script
    /\ calls' = Append(calls, script)
    /\ rpc' = "loop"
    /\ attempts' = attempts
    /\ response' = None
    /\ outcomes' = <<>>
    /\ sleeps' = 0
    /\ printed' = <<>>

\* the call of do_execute_request: response = None, then the for loop
EnterRequest(script) ==
    /\ code' = script
    /\ calls' = Append(calls, script)
    /\ rpc' = "loop"
    /\ attempts' = 0
    /\ response' = None
    /\ outcomes' = <<>>
    /\ sleeps' = 0
    /\ printed' = <<>>

\* mutant of MoreAttempts: the loop runs once more than request_repeat
MoreAttemptsOneMore(n, request_repeat) == n <= request_repeat

\* for i in range(request_repeat): whether an iteration follows n iterations
MoreAttempts(n, request_repeat) == n < request_repeat

\* mutant of AfterAttempt: the break is missing
AfterAttemptNoBreak(r) ==
    IF IsException(r) THEN "sleep"
    ELSE IF r.body.shape = "not_json" THEN "raise"
    ELSE "sleep"

\* the end of an iteration: response.json() raises on a body that is not JSON,
\* a response without 'error' breaks the loop, anything else sleeps
AfterAttempt(r) ==
    IF IsException(r) THEN "sleep"
    ELSE IF r.body.shape = "not_json" THEN "raise"
    ELSE IF ~HasError(r) THEN "break"
    ELSE "sleep"

\* one iteration of the loop
Attempt ==
    /\ rpc = "loop"
    /\ MoreAttempts(attempts, cfg.request_repeat)
    /\ \E outcome \in Outcomes :
         LET r == ResponseOf(outcome, attempts + 1, code)
             then == AfterAttempt(r)
         IN  /\ attempts' = attempts + 1
             /\ response' = r
             /\ outcomes' = Append(outcomes, outcome)
             /\ sleeps' = IF then = "sleep" THEN sleeps + 1 ELSE sleeps
             /\ rpc' = CASE then = "sleep" -> "loop"
                         [] then = "break" -> "after"
                         [] OTHER -> "idle"
             /\ pc' = IF then = "raise" THEN "raised" ELSE pc
             /\ error' = IF then = "raise"
                         THEN [kind |-> "JSONDecodeError", attempt |-> r.attempt]
                         ELSE error
             /\ api_calls' = IF outcome = "ok" THEN ApiCalls(world, cfg, code)
                             ELSE api_calls
             /\ requests' = requests + 1
             /\ printed' = IF IsException(r) THEN Append(printed, r) ELSE printed
    /\ UNCHANGED <<cfg, world, files, code, returned, user_info, special_groups, gi,
                   progress_status, progress_step, progress_calls, notices,
                   calls, result>>

\* the loop is over: by break, or because no iteration follows
LoopOver ==
    \/ rpc = "after"
    \/ rpc = "loop" /\ ~MoreAttempts(attempts, cfg.request_repeat)

\* the exception the lines after the loop raise, or None
RaisedAfterLoop(r) ==
    IF r = None THEN [kind |-> "AttributeError"]
    ELSE IF IsException(r) THEN r
    ELSE IF HasError(r)
    THEN [kind |-> "RequestException", error_code |-> r.body.error_code,
          error_msg |-> r.body.error_msg]
    ELSE IF r.body.shape # "response" THEN [kind |-> "KeyError", attempt |-> r.attempt]
    ELSE None

\* mutant of RequestRaises: a group whose check failed is skipped
RequestRaisesSkipsGroup ==
    /\ LoopOver
    /\ RaisedAfterLoop(response) # None
    /\ rpc' = "idle"
    /\ IF pc = "check"
       THEN /\ gi' = gi + 1
            /\ pc' = "loop"
            /\ error' = error
       ELSE /\ error' = RaisedAfterLoop(response)
            /\ pc' = "raised"
            /\ gi' = gi
    /\ UNCHANGED <<cfg, world, printed, requests, files, api_calls, code, attempts, response, outcomes, sleeps, returned,
                   user_info, special_groups, progress_status, progress_step,
                   progress_calls, notices, calls, result>>

\* mutant of RequestRaises: a failed summary call is taken for an empty answer
RequestRaisesAsNoUser ==
    /\ LoopOver
    /\ RaisedAfterLoop(response) # None
    /\ rpc' = "idle"
    /\ IF pc = "summary"
       THEN /\ returned' = [user |-> <<>>, groups |-> [count |-> 0, items |-> <<>>],
                            friends |-> [count |-> 0, items |-> <<>>]]
            /\ pc' = "classify"
            /\ error' = error
       ELSE /\ error' = RaisedAfterLoop(response)
            /\ pc' = "raised"
            /\ returned' = returned
    /\ UNCHANGED <<cfg, world, printed, requests, files, api_calls, code, attempts, response, outcomes, sleeps,
                   user_info, special_groups, gi, progress_status, progress_step,
                   progress_calls, notices, calls, result>>

\* the lines after the loop raise
RequestRaises ==
    /\ LoopOver
    /\ RaisedAfterLoop(response) # None
    /\ error' = RaisedAfterLoop(response)
    /\ rpc' = "idle"
    /\ pc' = "raised"
    /\ UNCHANGED <<cfg, world, printed, requests, files, api_calls, code, attempts, response, outcomes, sleeps, returned,
                   user_info, special_groups, gi, progress_status, progress_step,
                   progress_calls, notices, calls, result>>

\* mutant of RequestReturns: the answer is returned although the last response
\* carries an 'error' field
RequestReturnsDespiteError ==
    /\ LoopOver
    /\ response # None /\ ~IsException(response)
    /\ response.body.shape \in {"response", "error"}
    /\ returned' = Evaluate(world, cfg, code)
    /\ rpc' = "idle"
    /\ pc' = IF pc = "summary" THEN "classify" ELSE "checked"
    /\ UNCHANGED <<cfg, world, printed, requests, files, api_calls, code, attempts, response, outcomes, sleeps,
                   user_info, special_groups, gi, progress_status, progress_step,
                   progress_calls, notices, calls, error, result>>

\* return response.json()['response']
RequestReturns ==
    /\ LoopOver
    /\ RaisedAfterLoop(response) = None
    /\ returned' = response.body.response
    /\ rpc' = "idle"
    /\ pc' = IF pc = "summary" THEN "classify" ELSE "checked"
    /\ UNCHANGED <<cfg, world, printed, requests, files, api_calls, code, attempts, response, outcomes, sleeps,
                   user_info, special_groups, gi, progress_status, progress_step,
                   progress_calls, notices, calls, error, result>>

(***************************************************************************)
(* find_unshared_groups                                                    *)
(***************************************************************************)
\* json.dumps(special_groups, indent=4, ensure_ascii=False): the JSON text of a list
JsonDumps(list) == [kind |-> "json_text", of |-> list]

\* progress(status): the sink is called with status
Progress(status) == progress_calls' = Append(progress_calls, status)

\* GET_MAIN_USER_INFO_REQUEST_CODE.format(user_id=user_id, ...): the script
\* with the text of user_id between the quotes of var user_id = "..."
SummaryCode(c) == [kind |-> "summary", user_id |-> PyStr(c.user_id), group_id |-> <<>>]

\* CHECK_SPECIAL_GROUP_REQUEST_CODE.format(user_id=user_id, group_id=group, ...)
CheckCode(c, group) ==
    [kind |-> "check", user_id |-> PyStr(c.user_id), group_id |-> IntText(group)]

\* mutant of StartRun: the call progress(0) is missing
StartRunNoProgress ==
    /\ pc = "start"
    /\ EnterRequest(SummaryCode(cfg))
    /\ pc' = "summary"
    /\ UNCHANGED <<cfg, world, requests, files, api_calls, returned, user_info, special_groups, gi,
                   progress_status, progress_step, progress_calls, notices,
                   error, result>>

\* progress(0), format the summary script, call do_execute_request
StartRun ==
    /\ pc = "start"
    /\ Progress(FromInt(0))
    /\ EnterRequest(SummaryCode(cfg))
    /\ pc' = "summary"
    /\ UNCHANGED <<cfg, world, requests, files, api_calls, returned, user_info, special_groups, gi,
                   progress_status, progress_step, notices, error, result>>

\* if json_file: a path that is neither None nor the empty string
Truthy(json_file) == json_file.kind = "str" /\ json_file.value # ""

\* mutant of ReturnGroups: the file is written whatever json_file is
ReturnGroupsAlwaysWrites(list) ==
    /\ files' = Append(files, [path |-> cfg.json_file, text |-> JsonDumps(list)])
    /\ result' = JsonDumps(list)
    /\ pc' = "returned"
    /\ error' = error

\* the end of the function: if json_file, the JSON text of special_groups is
\* written to the file; the JSON text is returned
ReturnGroups(list) ==
    /\ files' = IF Truthy(cfg.json_file)
                THEN Append(files, [path |-> cfg.json_file, text |-> JsonDumps(list)])
                ELSE files
    /\ result' = JsonDumps(list)
    /\ pc' = "returned"
    /\ error' = error

\* mutant of RaiseOrNotice: the flag is read the wrong way round
RaiseOrNoticeInverted(what) ==
    IF ~cfg.raise_nouser
    THEN /\ error' = [kind |-> "ValueError", what |-> what]
         /\ pc' = "raised"
         /\ UNCHANGED <<notices, result, files>>
    ELSE /\ notices' = Append(notices, what)
         /\ ReturnGroups(<<>>)

\* mutant of RaiseOrNotice: raise_nouser is ignored, the run never raises
RaiseOrNoticeSilent(what) ==
    /\ notices' = Append(notices, what)
    /\ ReturnGroups(<<>>)

\* raise ValueError(...) or print(..., file=sys.stderr), as raise_nouser says
RaiseOrNotice(what) ==
    IF cfg.raise_nouser
    THEN /\ error' = [kind |-> "ValueError", what |-> what]
         /\ pc' = "raised"
         /\ UNCHANGED <<notices, result, files>>
    ELSE /\ notices' = Append(notices, what)
         /\ ReturnGroups(<<>>)

\* if not user_info['user']
UserMissing ==
    /\ pc = "classify"
    /\ returned.user = <<>>
    /\ user_info' = returned
    /\ special_groups' = <<>>
    /\ Progress(FromInt(100))
    /\ RaiseOrNotice("missing")
    /\ UNCHANGED <<cfg, world, printed, requests, api_calls, rpc, code, attempts, response, outcomes, sleeps,
                   returned, gi, progress_status, progress_step, calls>>

\* elif 'deactivated' in user_info['user'][0]
UserDeactivated ==
    /\ pc = "classify"
    /\ returned.user # <<>>
    /\ returned.user[1].deactivated
    /\ user_info' = returned
    /\ special_groups' = <<>>
    /\ Progress(FromInt(100))
    /\ RaiseOrNotice("deactivated")
    /\ UNCHANGED <<cfg, world, printed, requests, api_calls, rpc, code, attempts, response, outcomes, sleeps,
                   returned, gi, progress_status, progress_step, calls>>

\* progress_status = (user_info['groups']['count'] + 1) / 100
FirstStatus(count) == FDiv(FromInt(count + 1), FromInt(100))

\* progress_step = 1 / progress_status
StepOf(status) == FDiv(FromInt(1), status)

\* else: the first progress value, then the for loop starts
StartAnalysis ==
    /\ pc = "classify"
    /\ returned.user # <<>>
    /\ ~returned.user[1].deactivated
    /\ user_info' = returned
    /\ special_groups' = <<>>
    /\ progress_status' = FirstStatus(returned.groups.count)
    /\ progress_step' = StepOf(progress_status')
    /\ Progress(progress_status')
    /\ gi' = 1
    /\ pc' = "loop"
    /\ UNCHANGED <<cfg, world, printed, requests, files, api_calls, rpc, code, attempts, response, outcomes, sleeps,
                   returned, notices, calls, error, result>>

\* mutant of NextGroup: the group list is walked from its end
NextGroupReversed ==
    /\ pc = "loop"
    /\ gi <= Len(user_info.groups.items)
    /\ EnterRequest(CheckCode(cfg, user_info.groups.items[Len(user_info.groups.items) + 1 - gi]))
    /\ pc' = "check"
    /\ UNCHANGED <<cfg, world, requests, files, api_calls, returned, user_info, special_groups, gi,
                   progress_status, progress_step, progress_calls, notices,
                   error, result>>

\* for group in user_info['groups']['items']: format the script, call do_execute_request
NextGroup ==
    /\ pc = "loop"
    /\ gi <= Len(user_info.groups.items)
    /\ EnterRequest(CheckCode(cfg, user_info.groups.items[gi]))
    /\ pc' = "check"
    /\ UNCHANGED <<cfg, world, requests, files, api_calls, returned, user_info, special_groups, gi,
                   progress_status, progress_step, progress_calls, notices,
                   error, result>>

\* the record appended for a special group
GroupRecord(group_info) ==
    [name |-> group_info.group[1].name,
     gid |-> group_info.group[1].id,
     members_count |-> group_info.group[1].members_count]

\* if(group_info['special_group'])
Keeps(group_info) == group_info.special_group

\* mutant of GroupChecked: the loop does not move on to the next group
GroupCheckedSameGroup ==
    /\ pc = "checked"
    /\ progress_status' = FAdd(progress_status, progress_step)
    /\ Progress(progress_status')
    /\ special_groups' = IF Keeps(returned)
                         THEN Append(special_groups, GroupRecord(returned))
                         ELSE special_groups
    /\ gi' = gi
    /\ pc' = "loop"
    /\ UNCHANGED <<cfg, world, printed, requests, files, api_calls, rpc, code, attempts, response, outcomes, sleeps,
                   returned, user_info, progress_step, notices, calls, error, result>>

\* mutant of GroupChecked: a record is put at the front of special_groups
GroupCheckedPrepends ==
    /\ pc = "checked"
    /\ progress_status' = FAdd(progress_status, progress_step)
    /\ Progress(progress_status')
    /\ special_groups' = IF Keeps(returned)
                         THEN <<GroupRecord(returned)>> \o special_groups
                         ELSE special_groups
    /\ gi' = gi + 1
    /\ pc' = "loop"
    /\ UNCHANGED <<cfg, world, printed, requests, files, api_calls, rpc, code, attempts, response, outcomes, sleeps,
                   returned, user_info, progress_step, notices, calls, error, result>>

\* the rest of the loop body, after do_execute_request returned group_info
GroupChecked ==
    /\ pc = "checked"
    /\ progress_status' = FAdd(progress_status, progress_step)
    /\ Progress(progress_status')
    /\ special_groups' = IF Keeps(returned)
                         THEN Append(special_groups, GroupRecord(returned))
                         ELSE special_groups
    /\ gi' = gi + 1
    /\ pc' = "loop"
    /\ UNCHANGED <<cfg, world, printed, requests, files, api_calls, rpc, code, attempts, response, outcomes, sleeps,
                   returned, user_info, progress_step, notices, calls, error, result>>

\* after the loop: progress(100), return
FinishRun ==
    /\ pc = "loop"
    /\ gi > Len(user_info.groups.items)
    /\ Progress(FromInt(100))
    /\ ReturnGroups(special_groups)
    /\ UNCHANGED <<cfg, world, printed, requests, api_calls, rpc, code, attempts, response, outcomes, sleeps,
                   returned, user_info, special_groups, gi, progress_status,
                   progress_step, notices, calls>>

Next ==
    \/ StartRun
    \/ Attempt
    \/ RequestRaises
    \/ RequestReturns
    \/ UserMissing
    \/ UserDeactivated
    \/ StartAnalysis
    \/ NextGroup
    \/ GroupChecked
    \/ FinishRun

Spec == Init /\ [][Next]_vars

SpecLong == InitLong /\ [][Next]_vars

\* the interpreter runs the single thread on: whenever a step of the program
\* is possible, a step is eventually taken (every attempt ends with some outcome)
SpecFair == Init /\ [][Next]_vars /\ WF_vars(Next)

(***************************************************************************)
(* The scripts on their own: the service runs one script for given lists   *)
(* and page sizes.                                                         *)
(***************************************************************************)
\* the service runs a script: its answer and the API methods it called
RunScript(script) ==
    /\ code' = script
    /\ returned' = Evaluate(world, cfg, script)
    /\ api_calls' = ApiCalls(world, cfg, script)
    /\ pc' = "evaluated"
    /\ UNCHANGED <<cfg, world, printed, requests, files, rpc, attempts, response, outcomes, sleeps, user_info,
                   special_groups, gi, progress_status, progress_step, progress_calls,
                   notices, calls, error, result>>

\* the summary script of the user
RunSummary ==
    /\ pc = "start"
    /\ RunScript(SummaryCode(cfg))

\* the check script of the first group of the user
RunCheck ==
    /\ pc = "start"
    /\ world.groups # <<>>
    /\ RunScript(CheckCode(cfg, world.groups[1]))

NextScript ==
    \/ RunSummary
    \/ RunCheck

\* the page sizes explored: one size for both friends.get loops
ScriptConfigs ==
    {[user_id |-> [type |-> "str", value |-> Handle], json_file |-> DefaultFile,
      request_repeat |-> 1,
      raise_nouser |-> TRUE, members_threshold |-> 0, group_step |-> gs,
      friend_step |-> fs, friend_load_step |-> fs, friend_is_member_step |-> ms] :
        gs \in 1..MaxPage, fs \in 1..MaxPage, ms \in 1..MaxPage}

\* users with up to MaxItems groups and no friends, and users with one group,
\* up to MaxItems friends and any set of the friends as the group's members
ScriptWorlds ==
    ActiveWorlds(0..MaxItems, {0})
    \cup UNION {{[user |-> "active", id |-> UserNumber, handle |-> Handle,
                  groups |-> GroupList(1), friends |-> FriendList(f),
                  members |-> <<s>>, length_of |-> l] :
                     s \in SUBSET (1..f), l \in LengthOutcomes} : f \in 1..MaxItems}

InitScript ==
    /\ cfg \in ScriptConfigs
    /\ world \in ScriptWorlds
    /\ InitRun

SpecScript == InitScript /\ [][NextScript]_vars

(***************************************************************************)
(* The scripts with the default page sizes, for users up to the maxima the *)
(* module is written for.                                                  *)
(***************************************************************************)
GROUP_STEP == 1000

FRIEND_STEP == 5000

FRIEND_LOAD_STEP == 5000

FRIEND_IS_MEMBER_STEP == 500

MEMBERS_THRESHOLD == 0

\* the most friends and the most groups a user can have
MaxUserFriends == 10000

MaxUserGroups == 5000

\* the most API calls one execute request may make
MaxExecuteCalls == 25

\* mutant of DefaultConfig: groups.isMember is asked about half as many friends
DefaultConfigHalfSlices ==
    [user_id |-> [type |-> "str", value |-> Handle], json_file |-> DefaultFile,
     request_repeat |-> 1,
     raise_nouser |-> TRUE, members_threshold |-> MEMBERS_THRESHOLD,
     group_step |-> GROUP_STEP, friend_step |-> FRIEND_STEP,
     friend_load_step |-> FRIEND_LOAD_STEP,
     friend_is_member_step |-> FRIEND_IS_MEMBER_STEP \div 2]

\* find_unshared_groups(user_id) with the default keyword arguments
DefaultConfig ==
    [user_id |-> [type |-> "str", value |-> Handle], json_file |-> DefaultFile,
     request_repeat |-> 1,
     raise_nouser |-> TRUE, members_threshold |-> MEMBERS_THRESHOLD,
     group_step |-> GROUP_STEP, friend_step |-> FRIEND_STEP,
     friend_load_step |-> FRIEND_LOAD_STEP,
     friend_is_member_step |-> FRIEND_IS_MEMBER_STEP]

\* the totals up to max at which the number of pages of the given size
\* changes: the multiples of the size, one less and one more
EdgeTotals(max, size) == {t \in 0..max : t % size \in {0, 1, size - 1}}

\* a user with n groups and f friends, none of them a member of a group
LimitWorld(n, f, l) ==
    [user |-> "active", id |-> UserNumber, handle |-> Handle,
     groups |-> GroupList(n), friends |-> FriendList(f),
     members |-> [g \in 1..n |-> {}], length_of |-> l]

LimitWorlds ==
    {LimitWorld(n, f, "items") :
        n \in EdgeTotals(MaxUserGroups, GROUP_STEP), f \in {0, MaxUserFriends}}
    \cup {LimitWorld(1, f, l) :
            f \in EdgeTotals(MaxUserFriends, FRIEND_IS_MEMBER_STEP), l \in LengthOutcomes}

InitLimits ==
    /\ cfg = DefaultConfig
    /\ world \in LimitWorlds
    /\ InitRun

SpecLimits == InitLimits /\ [][NextScript]_vars

(***************************************************************************)
(* Properties                                                              *)
(***************************************************************************)
\* a do_execute_request call has ended, by return or by raise
CallEnded == rpc = "idle" /\ pc # "start"

\* the attempt failed by a network exception or by an error envelope
Failed(outcome) == outcome \in {"exception", "error"}

AllFailed == \A k \in 1..Len(outcomes) : Failed(outcomes[k])

\* the error a failed attempt n with the given outcome stands for
FailureOf(outcome, n) ==
    IF outcome = "exception"
    THEN [kind |-> "exception", attempt |-> n]
    ELSE [kind |-> "RequestException", error_code |-> n, error_msg |-> <<"msg", n>>]

\* C1: when every attempt of a do_execute_request call failed (by a network
\* exception or an error envelope), the call issued exactly request_repeat
\* requests and raised the error of the last attempt: that attempt's exception,
\* or a RequestException carrying that response's error_code and error_msg.
C1_LastFailureSurfaced ==
    (CallEnded /\ AllFailed) =>
        /\ attempts = cfg.request_repeat
        /\ Len(outcomes) = cfg.request_repeat
        /\ pc = "raised"
        /\ outcomes # <<>> => error = FailureOf(outcomes[Len(outcomes)], Len(outcomes))

\* C1 witness: three attempts failed, the first by an exception and the last by
\* an error envelope, and the call raised
C1_Witness ==
    /\ CallEnded /\ AllFailed /\ pc = "raised"
    /\ Len(outcomes) = 3
    /\ outcomes[1] = "exception" /\ outcomes[3] = "error"
    /\ error.kind = "RequestException" /\ error.error_code = 3

\* C2: when attempts 1..k-1 of a call failed and attempt k succeeded, exactly k
\* requests were issued, no further attempt follows, and the call returns the
\* 'response' field of attempt k.
C2_SuccessOnAttemptK ==
    \A k \in 1..Len(outcomes) :
        (outcomes[k] = "ok" /\ \A j \in 1..(k - 1) : Failed(outcomes[j])) =>
            /\ attempts = k
            /\ Len(outcomes) = k
            /\ rpc \in {"after", "idle"}
            /\ response.kind = "http" /\ response.attempt = k
            /\ rpc = "idle" =>
                 /\ returned = Evaluate(world, cfg, code)
                 /\ returned = response.body.response
                 /\ error.kind \in {"None", "ValueError"}

\* C2 witness: a call returned after an exception, an error envelope and a success
C2_Witness ==
    /\ rpc = "idle" /\ pc \in {"classify", "checked"}
    /\ outcomes = <<"exception", "error", "ok">>
    /\ attempts = 3
    /\ returned = response.body.response

\* C3: an attempt whose body is not JSON, or is JSON with neither 'response'
\* nor 'error', is retried like a transport failure: the call is not over
\* before request_repeat attempts have been made.
C3_MalformedIsRetried ==
    (\E k \in 1..Len(outcomes) : outcomes[k] \in {"malformed", "other"}) =>
        (rpc \in {"after", "idle"} => attempts = cfg.request_repeat)

\* the groups of the user that have a record in the list
RecordedGroups(list) == {list[k].gid : k \in 1..Len(list)}

\* the friends-in-group count the check script computes for a group
CountOf(group_id) ==
    FriendsInGroup(world, group_id, cfg.friend_load_step, cfg.friend_is_member_step)

\* C4: in a run that completed, a group of the user's group list has a record
\* in the returned list iff the friends-in-group count computed for it is
\* <= members_threshold.
C4_RecordIffWithinThreshold ==
    (pc = "returned" /\ world.user = "active") =>
        \A p \in 1..Len(user_info.groups.items) :
            LET g == user_info.groups.items[p]
            IN  (g \in RecordedGroups(result.of)) <=> (CountOf(g) <= cfg.members_threshold)

\* C4 witness: a completed run over groups with counts equal to, one above and
\* one below the threshold
C4_Witness ==
    /\ pc = "returned" /\ world.user = "active"
    /\ cfg.members_threshold = 1
    /\ \E a, b, c \in {world.groups[k] : k \in 1..Len(world.groups)} :
         /\ CountOf(a) = cfg.members_threshold /\ a \in RecordedGroups(result.of)
         /\ CountOf(b) = cfg.members_threshold + 1 /\ b \notin RecordedGroups(result.of)
         /\ CountOf(c) = cfg.members_threshold - 1 /\ c \in RecordedGroups(result.of)

\* the number of progress calls that passed exactly 100
Hundreds == Cardinality({k \in 1..Len(progress_calls) : FEq(progress_calls[k], FromInt(100))})

LastProgress == progress_calls[Len(progress_calls)]

\* the run ended by success or by the missing/deactivated-user short-circuit
EndedAfterSummary == pc = "returned" \/ (pc = "raised" /\ error.kind = "ValueError")

\* C5: the values passed to the progress sink are non-decreasing: each call
\* passes a value >= the value of the call before it.
C5_ProgressMonotone ==
    \A k \in 1..(Len(progress_calls) - 1) : FLeq(progress_calls[k], progress_calls[k + 1])

\* C6: every value passed to the progress sink lies in [0, 100].
C6_ProgressInRange ==
    \A k \in 1..Len(progress_calls) :
        FLeq(FromInt(0), progress_calls[k]) /\ FLeq(progress_calls[k], FromInt(100))

\* C7: in a run that ended by success or by the short-circuit, 100 was passed
\* to the progress sink exactly once, by the last progress call.
C7_HundredOnceAtEnd ==
    EndedAfterSummary => (Hundreds = 1 /\ FEq(LastProgress, FromInt(100)))

\* C8: in a successful run over a user with N groups the progress sink was
\* called at least N+2 times, first with 0 and last with 100.
C8_ProgressCallCount ==
    (pc = "returned" /\ world.user = "active") =>
        /\ Len(progress_calls) >= Len(world.groups) + 2
        /\ FEq(progress_calls[1], FromInt(0))
        /\ FEq(LastProgress, FromInt(100))

\* C8 witness: a successful run over three groups
C8_Witness ==
    /\ pc = "returned" /\ world.user = "active"
    /\ Len(world.groups) = 3 /\ gi = 4
    /\ Len(progress_calls) = 6

\* C9: for an existing, active user with 0 groups the run returns the empty
\* list and the values passed to the progress sink are exactly 0, 100.
C9_NoGroupsProgress ==
    (pc = "returned" /\ world.user = "active" /\ world.groups = <<>>) =>
        /\ result = JsonDumps(<<>>)
        /\ progress_calls = <<FromInt(0), FromInt(100)>>

\* the summary reported the user as nonexistent or deactivated
UserAbsent ==
    /\ user_info # None
    /\ (user_info.user = <<>> \/ user_info.user[1].deactivated)

\* C10: when the summary reports the user as nonexistent or deactivated and
\* raise_nouser is false, the run ends without raising: it returns the empty
\* list, progress 100 was emitted, a notice was emitted, and the summary was
\* the only script submitted.
C10_AbsentUserSoftFail ==
    (UserAbsent /\ ~cfg.raise_nouser) =>
        /\ pc = "returned"
        /\ error = None
        /\ result = JsonDumps(<<>>)
        /\ FEq(LastProgress, FromInt(100))
        /\ Len(notices) = 1
        /\ calls = <<SummaryCode(cfg)>>

\* C10 witness: the run over a deactivated user returned with raise_nouser false
C10_Witness ==
    /\ world.user = "deactivated" /\ ~cfg.raise_nouser
    /\ UserAbsent /\ pc = "returned"
    /\ notices = <<"deactivated">>

\* C11: when the summary reports the user as nonexistent or deactivated and
\* raise_nouser is true, the run fails with the user-not-found or
\* user-deactivated error after progress 100 was emitted: no membership-check
\* script was submitted, nothing was printed instead, and no value is returned.
C11_AbsentUserRaises ==
    (UserAbsent /\ cfg.raise_nouser) =>
        /\ pc = "raised"
        /\ error = [kind |-> "ValueError",
                    what |-> IF user_info.user = <<>> THEN "missing" ELSE "deactivated"]
        /\ result = None
        /\ FEq(LastProgress, FromInt(100))
        /\ notices = <<>>
        /\ Len(calls) = 1 /\ calls[1].kind = "summary"

\* C11 witness: the run over a nonexistent user raised with raise_nouser true,
\* after the progress values 0 and 100
C11_Witness ==
    /\ world.user = "missing" /\ cfg.raise_nouser
    /\ UserAbsent /\ pc = "raised"
    /\ error.kind = "ValueError" /\ error.what = "missing"
    /\ progress_calls = <<FromInt(0), FromInt(100)>>

\* the current do_execute_request call ended without a successful attempt
CallFailed == CallEnded /\ (outcomes = <<>> \/ outcomes[Len(outcomes)] # "ok")

\* the exceptions do_execute_request lets out
RequestErrors == {"exception", "RequestException", "JSONDecodeError", "KeyError",
                  "AttributeError"}

\* C12: when the summary call fails (after all its attempts, or by an answer
\* that cannot be read), the failure propagates to the caller of
\* find_unshared_groups: the run ends with that error, the summary is the only
\* script ever submitted, and nothing is returned.
C12_SummaryFailurePropagates ==
    (CallFailed /\ code.kind = "summary") =>
        /\ pc = "raised"
        /\ error.kind \in RequestErrors
        /\ (outcomes # <<>> /\ AllFailed) =>
              /\ attempts = cfg.request_repeat
              /\ error = FailureOf(outcomes[Len(outcomes)], Len(outcomes))
        /\ calls = <<code>>
        /\ user_info = None
        /\ result = None
        /\ ~ENABLED Next

\* C12 witness: the summary call failed three times, the run raised the
\* exception of the third attempt
C12_Witness ==
    /\ CallFailed /\ code.kind = "summary"
    /\ outcomes = <<"error", "error", "exception">>
    /\ pc = "raised" /\ error = [kind |-> "exception", attempt |-> 3]
    /\ Len(calls) = 1 /\ result = None

\* C13: when the membership-check call of a group fails, the whole run fails:
\* the error propagates, no list is returned although records may have been
\* accumulated, the failed group is not skipped, and no script is submitted
\* for a later group (the scripts submitted are the summary and the checks of
\* the groups up to the failed one).
C13_CheckFailureEndsRun ==
    (CallFailed /\ code.kind = "check") =>
        /\ pc = "raised"
        /\ error.kind \in RequestErrors
        /\ (outcomes # <<>> /\ AllFailed) =>
              /\ attempts = cfg.request_repeat
              /\ error = FailureOf(outcomes[Len(outcomes)], Len(outcomes))
        /\ result = None
        /\ code.group_id = IntText(user_info.groups.items[gi])
        /\ Len(calls) = gi + 1
        /\ calls[Len(calls)] = code
        /\ Len(special_groups) <= gi - 1
        /\ ~ENABLED Next

\* C13 witness: the check of the second of three groups failed on both
\* attempts after the first group was recorded; the run raised
C13_Witness ==
    /\ CallFailed /\ code.kind = "check"
    /\ Len(user_info.groups.items) = 3 /\ gi = 2
    /\ outcomes = <<"exception", "error">>
    /\ Len(special_groups) = 1
    /\ pc = "raised" /\ error.kind = "RequestException"
    /\ result = None

\* C14: the membership-check scripts are submitted one at a time in the order
\* of the summary's group list: the scripts submitted are the summary followed
\* by the checks of the first groups of the list, one per group and all of
\* them once the run returns; a script is submitted only while no call is in
\* progress, and a check only after the call before it returned its answer.
C14_SequentialChecks ==
    /\ [](calls # <<>> =>
            /\ calls[1].kind = "summary"
            /\ \A k \in 2..Len(calls) :
                 /\ calls[k].kind = "check"
                 /\ calls[k].group_id = IntText(user_info.groups.items[k - 1])
            /\ rpc # "idle" => code = calls[Len(calls)]
            /\ (pc = "returned" /\ world.user = "active") =>
                 Len(calls) = 1 + Len(user_info.groups.items))
    /\ [][calls' # calls =>
            /\ rpc = "idle"
            /\ Len(calls') = Len(calls) + 1
            /\ calls # <<>> =>
                 /\ outcomes # <<>> /\ outcomes[Len(outcomes)] = "ok"
                 /\ returned = Evaluate(world, cfg, calls[Len(calls)])
                 /\ error = None]_vars

\* C14 witness: a run over three groups returned after the summary and the
\* three checks, in the order of the group list
C14_Witness ==
    /\ pc = "returned" /\ Len(calls) = 4
    /\ user_info.groups.items = <<3, 2, 1>>
    /\ <<calls[2].group_id, calls[3].group_id, calls[4].group_id>>
          = <<IntText(3), IntText(2), IntText(1)>>

\* the record find_unshared_groups builds from what groups.getById reports for a group
ReportedRecord(group_id) ==
    LET info == ApiGroupsGetById(world, group_id)[1]
    IN  [name |-> info.name, gid |-> info.id, members_count |-> info.members_count]

\* the reported records of the groups of a list that are in keep, in list order
RECURSIVE ReportedRecords(_, _)
ReportedRecords(items, keep) ==
    IF items = <<>> THEN <<>>
    ELSE (IF Head(items) \in keep THEN <<ReportedRecord(Head(items))>> ELSE <<>>)
         \o ReportedRecords(Tail(items), keep)

\* C20: the returned list is an order-preserving selection of the user's group
\* list: every record belongs to a group of the list, a group has at most one
\* record, the records are in the order of the list, and each record carries
\* the name, id and member count the service reported for its group.
C20_OrderedSelection ==
    (pc = "returned" /\ world.user = "active") =>
        /\ RecordedGroups(result.of) \subseteq
              {user_info.groups.items[p] : p \in 1..Len(user_info.groups.items)}
        /\ result.of = ReportedRecords(user_info.groups.items, RecordedGroups(result.of))

\* C20 witness: of three groups only the second has no friend among its
\* members; the returned list is exactly the record of that group
C20_Witness ==
    /\ pc = "returned" /\ world.user = "active"
    /\ Len(user_info.groups.items) = 3
    /\ cfg.members_threshold = 0
    /\ CountOf(user_info.groups.items[1]) > 0
    /\ CountOf(user_info.groups.items[2]) = 0
    /\ CountOf(user_info.groups.items[3]) > 0
    /\ result.of = <<ReportedRecord(user_info.groups.items[2])>>

\* the number of calls of a method in a log of API calls
Times(method, log) == Cardinality({k \in 1..Len(log) : log[k] = method})

\* ceil(total / size) for total >= 0 and size >= 1
Ceil(total, size) == (total + size - 1) \div size

\* the list calls of a paging loop over total items: the first page is always
\* requested, then one page per iteration
ListCalls(total, size) == IF total = 0 THEN 1 ELSE Ceil(total, size)

\* C15 as stated: for every total >= 0 and page size >= 1 each paging loop
\* issues exactly ceil(total / pageSize) list calls and the concatenation of
\* the pages holds every item of the list exactly once, in the service's order.
C15_CeilListCalls ==
    pc = "evaluated" =>
        IF code.kind = "summary"
        THEN /\ Times("groups.get", api_calls) = Ceil(Len(world.groups), cfg.group_step)
             /\ Times("friends.get", api_calls) = Ceil(Len(world.friends), cfg.friend_step)
             /\ returned.groups.items = world.groups
             /\ returned.friends.items = world.friends
        ELSE /\ Times("friends.get", api_calls) = Ceil(Len(world.friends), cfg.friend_load_step)
             /\ LoadAll(world.friends, cfg.friend_load_step).items = world.friends

\* C15, amended: each paging loop (groups and friends in the summary script,
\* friends in the check script) issues ceil(total / pageSize) list calls when
\* total > 0 and one list call when total = 0, and the concatenation of the
\* pages holds every item of the list exactly once, in the service's order.
C15_PagingComplete ==
    pc = "evaluated" =>
        IF code.kind = "summary"
        THEN /\ Times("groups.get", api_calls) = ListCalls(Len(world.groups), cfg.group_step)
             /\ Times("friends.get", api_calls) = ListCalls(Len(world.friends), cfg.friend_step)
             /\ returned.groups = [count |-> Len(world.groups), items |-> world.groups]
             /\ returned.friends = [count |-> Len(world.friends), items |-> world.friends]
        ELSE /\ Times("friends.get", api_calls)
                  = ListCalls(Len(world.friends), cfg.friend_load_step)
             /\ LoadAll(world.friends, cfg.friend_load_step)
                  = [count |-> Len(world.friends), items |-> world.friends]

\* C15 witness: the summary script paged through five groups two at a time,
\* by three groups.get calls
C15_Witness ==
    /\ pc = "evaluated" /\ code.kind = "summary"
    /\ Len(world.groups) = 5 /\ cfg.group_step = 2
    /\ Times("groups.get", api_calls) = 3
    /\ returned.groups.items = world.groups

\* the friends of the user who are members of the group a check script is about
MemberFriends(script) ==
    {world.friends[k] : k \in 1..Len(world.friends)}
        \cap world.members[ParseInt(LiteralValue(script.group_id))]

\* C16: for every friend list, every membership among the friends and every
\* friend_is_member_step >= 1, the friends_in_group value of the check script
\* is the exact number of friends who are members of the group (the same for
\* every step), and the slices passed to groups.isMember cover every friend
\* exactly once.
C16_SlicingExact ==
    (pc = "evaluated" /\ code.kind = "check") =>
        /\ returned.friends_in_group = Cardinality(MemberFriends(code))
        /\ Times("groups.isMember", api_calls)
              = Ceil(Len(world.friends), cfg.friend_is_member_step)

\* C19: with the default page sizes and a user within the stated maxima, a
\* script makes at most 25 API calls: users.get, the friends.get and
\* groups.get pages, the groups.isMember slices and groups.getById.
C19_WithinExecuteLimit ==
    pc = "evaluated" =>
        /\ Len(api_calls) <= MaxExecuteCalls
        /\ Times("users.get", api_calls) = 1
        /\ IF code.kind = "summary"
           THEN Len(api_calls) = 1 + Times("groups.get", api_calls)
                                   + Times("friends.get", api_calls)
           ELSE /\ Len(api_calls) = 2 + Times("friends.get", api_calls)
                                      + Times("groups.isMember", api_calls)
                /\ Times("groups.getById", api_calls) = 1

\* C19 witness: the check script for a user with 10000 friends made 24 API
\* calls, 20 of them groups.isMember
C19_Witness ==
    /\ pc = "evaluated" /\ code.kind = "check"
    /\ Len(world.friends) = MaxUserFriends
    /\ Times("groups.isMember", api_calls) = 20
    /\ Len(api_calls) = 24

\* the run was started for one of the four ways to address the user of the world
ValidRef == cfg.user_id \in UserRefs(world)

C18_UnsafeIdFailsLocally ==
    HasQuote(PyStr(cfg.user_id)) =>
        /\ calls = <<>>
        /\ attempts = 0
        /\ pc \in {"start", "raised"}

\* C21: in a run over an active user with N groups, the progress value passed
\* after the summary and after k groups were processed (0 <= k <= N) equals
\* 100*(k+1)/(N+1): k+1 completed units out of N+1.
C21_ProgressProportional ==
    (world.user = "active" /\ user_info # None) =>
        \A k \in 0..Len(world.groups) :
            2 + k <= Len(progress_calls) =>
                FEq(progress_calls[2 + k],
                    FDiv(FromInt(100 * (k + 1)), FromInt(Len(world.groups) + 1)))

\* C22: in a call that ended after at least one attempt, the number of delays
\* is the number of attempts minus one: one delay after each failed attempt
\* that another attempt follows, none after a successful attempt and none
\* after the final attempt (request_repeat - 1 delays when every attempt failed).
C22_DelayOnlyBetweenAttempts ==
    (CallEnded /\ outcomes # <<>>) => sleeps = Len(outcomes) - 1

\* the last do_execute_request call ended by raising
CallRaised == CallEnded /\ pc = "raised" /\ error.kind # "ValueError"

\* the last do_execute_request call ended by returning a value
CallReturned == CallEnded /\ ~CallRaised

\* C23: a do_execute_request call never yields a value mixed with an error:
\* when it returned, the value is the 'response' field of the last attempt
\* made, that attempt raised no exception and carried no 'error' field, and
\* every earlier attempt failed (so no earlier value exists to be returned);
\* when the last attempt did not succeed the call raised, and a raising
\* summary call left no value behind.
C23_ValueOrErrorNeverBoth ==
    /\ CallReturned =>
         /\ outcomes # <<>> /\ outcomes[Len(outcomes)] = "ok"
         /\ \A k \in 1..(Len(outcomes) - 1) : Failed(outcomes[k])
         /\ response.kind = "http" /\ response.attempt = Len(outcomes)
         /\ response.body.shape = "response" /\ ~HasError(response)
         /\ returned = response.body.response
    /\ (CallEnded /\ outcomes # <<>> /\ outcomes[Len(outcomes)] # "ok") =>
         /\ CallRaised
         /\ Len(calls) = 1 => returned = None

\* C23 witness: a check call returned on its second attempt after an error
\* envelope, the value is the second attempt's
C23_Witness ==
    /\ CallReturned /\ pc = "checked"
    /\ outcomes = <<"error", "ok">>
    /\ response.attempt = 2
    /\ returned = response.body.response

\* the number of do_execute_request calls that submitted the script
Submissions(script) == Cardinality({k \in 1..Len(calls) : calls[k] = script})

\* C24: a retry re-issues only the script of the operation that failed. In any
\* run the summary script is submitted by exactly one do_execute_request call
\* and each group's check script by at most one; every HTTP request posts the
\* script of the current call, which during the check of group gi is that
\* group's script; a successful run over N groups made exactly N+1 calls; and
\* every call starts with no attempt made and makes at most request_repeat.
C24_RetryOnlyFailedBatch ==
    /\ [](/\ pc # "start" => Submissions(SummaryCode(cfg)) = 1
          /\ \A i \in 1..Len(world.groups) :
                Submissions(CheckCode(cfg, world.groups[i])) <= 1
          /\ (pc = "returned" /\ world.user = "active") =>
                Len(calls) = Len(world.groups) + 1
          /\ attempts <= cfg.request_repeat)
    /\ [][/\ requests' # requests =>
                /\ calls' = calls /\ code' = code
                /\ code = calls[Len(calls)]
                /\ code = IF pc = "summary" THEN SummaryCode(cfg)
                          ELSE CheckCode(cfg, world.groups[gi])
          /\ calls' # calls => attempts' = 0]_vars

\* C24 witness: the summary call and the check of the first group both used
\* their two attempts, a failure followed by a success
C24_Witness ==
    /\ cfg.request_repeat = 2 /\ Len(calls) = 2
    /\ rpc = "idle" /\ pc = "checked"
    /\ outcomes = <<"exception", "ok">> /\ attempts = 2
    /\ requests = 4

\* C28: with request_repeat = 0 a do_execute_request call issues no HTTP
\* request and ends by raising, and the error is of the kind of the other
\* transport failures: the exception of a request or a RequestException.
C28_ZeroRepeatRaisesTransportError ==
    (CallEnded /\ cfg.request_repeat = 0) =>
        /\ attempts = 0 /\ requests = 0
        /\ pc = "raised"
        /\ error.kind \in {"exception", "RequestException"}

\* C25: a do_execute_request call writes nothing to an output stream, whatever
\* the outcome of its attempts, an attempt that ends in a network exception
\* included.
C25_RequestPrintsNothing == printed = <<>>

\* the run of find_unshared_groups is over
RunEnded == pc \in {"returned", "raised"}

\* C26: every run ends, by returning or raising, whatever the group list, the
\* request_repeat >= 0 and the outcomes of the requests; a call never makes
\* more than request_repeat attempts and a run over N groups never issues more
\* than (N+1) * request_repeat HTTP requests.
C26_RunTerminates ==
    /\ [](/\ attempts <= cfg.request_repeat
          /\ requests <= (Len(world.groups) + 1) * cfg.request_repeat)
    /\ <>RunEnded

\* C26 witness: a run over two groups returned after every call used both of
\* its attempts, six requests in all
C26_Witness ==
    /\ pc = "returned" /\ world.user = "active"
    /\ Len(world.groups) = 2 /\ cfg.request_repeat = 2
    /\ requests = 6

\* C27: the result file is written at most once per run, and only by a run
\* that returned: after the last group, or after the short-circuit of a
\* missing/deactivated user with raise_nouser false, where the empty list is
\* written; the text written is the returned text. No file is written when
\* json_file is None, nor in a run that ended with an error.
C27_FileWrittenOnceAtEnd ==
    /\ Len(files) <= 1
    /\ files # <<>> =>
         /\ pc = "returned"
         /\ files[1] = [path |-> cfg.json_file, text |-> result]
         /\ world.user = "active" => gi > Len(world.groups)
         /\ UserAbsent => (~cfg.raise_nouser /\ result = JsonDumps(<<>>))
    /\ cfg.json_file = None => files = <<>>
    /\ pc = "raised" => files = <<>>

\* C27 witness: a run over two groups returned a list with a record and wrote
\* the same text to groups.json
C27_Witness ==
    /\ pc = "returned" /\ Len(world.groups) = 2
    /\ special_groups # <<>>
    /\ files = <<[path |-> DefaultFile, text |-> JsonDumps(special_groups)]>>
    /\ result = JsonDumps(special_groups)

====
